---- MODULE Spec2Model ----
(***************************************************************************)
(* Model of check.py, the submission-structure checker: for every archive  *)
(* path of sys.argv[1:] it looks the archive up, extracts it into a        *)
(* TemporaryDirectory, checks classification.json, checks the six          *)
(* wns_case_NN folders against expected_patches.json and prints the        *)
(* summaries.                                                              *)
(*                                                                         *)
(* The file system and the manifest are the environment: what a path holds *)
(* is chosen when the program reads it.  stdout is write-only: `out` holds *)
(* the lines written by the latest step and `printed` the severities and   *)
(* categories of all lines written so far for the current archive.         *)
(* `out2` is what a second process, started on the same unchanged archives *)
(* with its own string-hash seed, writes at the same step.                 *)
(***************************************************************************)
EXTENDS Integers, Sequences, FiniteSets, TLC

\* len(sys.argv[1:]): the number of archive paths on the command line.
NumArchives == 2

\* check.py:106
cases == 6

\* check.py:112
expected_classes == 1..10

\* check.py:113
expected_shape == <<3000, 3000>>

\* check.py:60-65
expected_keys ==
    {"FoSJZXMf", "QWbE525I", "rXnHCUvh", "QgiI3ZjZ", "mEbHuWpr", "QALoeYtI", "ekSUm2cR",
     "IWHbSh5u", "nDEUHXwj", "JMo8YkLs", "DsRY1rxV", "eRLJEqUc", "I5eHKnl9", "TE4z9RQi",
     "pijPwLr3", "JEKP6PPk", "VkwcFVCj", "gXwu1b4V", "OuM2aSiS", "2pT4GFzn", "9jNhMVzm",
     "Jf22jnO2", "DZVCFC0G", "yUTVZuRr", "XS7iESy5", "ABLVABMT", "usRRkq2C", "J9cGjQjN",
     "DokmCXM1", "tUw6bIr8", "VcspD4KF", "ft5ALWqc", "4Hjkjs0i", "9bwsptDH", "AlTjYbsA",
     "tJgvMquY", "x2cYOIty", "NUYZ3vYd", "F62qzus2", "BHTUesDo"}

(***************************************************************************)
(* Inputs: the strings that occur in archives and in the manifest.         *)
(***************************************************************************)

\* Keys a classification.json may hold besides the expected ones.
ExtraKeys == {"ZZZZZZZZ"}

\* Keys whose presence and value vary between the sampled classification.json
\* files; every other expected key is either present with a valid score or
\* the file holds none of them.
VaryKeys == {"FoSJZXMf", "QWbE525I"} \cup ExtraKeys

\* Patch names the manifest expects for a case, and a name it does not.
ManifestPatches == {"patch_a.png", "patch_b.png"}
ExtraPatches == {"patch_x.png"}
PatchNames == ManifestPatches \cup ExtraPatches

\* Every string that can be a member of a Python set of str in the program.
Strings ==
    <<"FoSJZXMf", "QWbE525I", "rXnHCUvh", "QgiI3ZjZ", "mEbHuWpr", "QALoeYtI", "ekSUm2cR",
      "IWHbSh5u", "nDEUHXwj", "JMo8YkLs", "DsRY1rxV", "eRLJEqUc", "I5eHKnl9", "TE4z9RQi",
      "pijPwLr3", "JEKP6PPk", "VkwcFVCj", "gXwu1b4V", "OuM2aSiS", "2pT4GFzn", "9jNhMVzm",
      "Jf22jnO2", "DZVCFC0G", "yUTVZuRr", "XS7iESy5", "ABLVABMT", "usRRkq2C", "J9cGjQjN",
      "DokmCXM1", "tUw6bIr8", "VcspD4KF", "ft5ALWqc", "4Hjkjs0i", "9bwsptDH", "AlTjYbsA",
      "tJgvMquY", "x2cYOIty", "NUYZ3vYd", "F62qzus2", "BHTUesDo",
      "ZZZZZZZZ", "patch_a.png", "patch_b.png", "patch_x.png">>

Rank == [s \in {Strings[n] : n \in 1..Len(Strings)} |->
            CHOOSE n \in 1..Len(Strings) : Strings[n] = s]

\* hash(str) depends on the process's hash seed (PYTHONHASHSEED is random by
\* default): an injective function of the string for each seed.
Seeds == {1, 2}
Hash(s, seed) == (Rank[s] * seed) % 53

\* All strings in the order of their hashes, per seed.
RECURSIVE SortByHash(_, _)
SortByHash(S, seed) ==
    IF S = {} THEN <<>>
    ELSE LET x == CHOOSE x \in S : \A y \in S : Hash(x, seed) <= Hash(y, seed)
         IN  <<x>> \o SortByHash(S \ {x}, seed)
HashOrder == [seed \in Seeds |-> SortByHash(DOMAIN Rank, seed)]

\* list(S) for a Python set of str: the iteration order of a set follows the
\* hashes of its members.  check.py:70,76,80,132,138
list(S, seed) == SelectSeq(HashOrder[seed], LAMBDA s : s \in S)

\* list(S) for a set of numpy integers: small integers hash to themselves, the
\* order does not depend on the seed.  check.py:155
RECURSIVE listInt(_)
listInt(S) ==
    IF S = {} THEN <<>>
    ELSE LET x == CHOOSE x \in S : \A y \in S : x <= y
         IN  <<x>> \o listInt(S \ {x})

(***************************************************************************)
(* Output lines.                                                           *)
(***************************************************************************)
Line(sev, cat, msg, names, nums) ==
    [sev |-> sev, cat |-> cat, msg |-> msg, names |-> names, nums |-> nums]

\* The severities and the parts of the program that print.
Tags == {"INFO", "ERROR", "WARNING", "SUCCESS"}
           \X {"archive", "classification", "segmentation", "submission"}

\* The severities and categories of the lines.
TagsOf(lines) == {<<lines[n].sev, lines[n].cat>> : n \in 1..Len(lines)}

RECURSIVE Flatten(_)
Flatten(ss) == IF ss = <<>> THEN <<>> ELSE Head(ss) \o Flatten(Tail(ss))

\* check.py:12
CheckingLine == Line("INFO", "archive", "Checking archive", <<>>, <<>>)
\* check.py:17
NotFoundLine == Line("ERROR", "archive", "The archive could not be found", <<>>, <<>>)
\* check.py:27
CorruptedLine == Line("ERROR", "archive", "This ZIP file is corrupted", <<>>, <<>>)
\* check.py:102
ClassificationSuccess ==
    Line("SUCCESS", "classification", "classification.json is valid!", <<>>, <<>>)
\* check.py:162
SegmentationSuccess ==
    Line("SUCCESS", "segmentation", "No errors in the segmentations files!", <<>>, <<>>)
\* check.py:165
CompletelyValid ==
    Line("SUCCESS", "submission", "The submission is completely valid!", <<>>, <<>>)

(***************************************************************************)
(* classification.json                                                     *)
(***************************************************************************)

\* JSON values as json.load returns them: the Python type, the number in
\* tenths, and whether a float is NaN (json.load accepts the literal NaN).
Value(type, num, nan) == [type |-> type, num |-> num, nan |-> nan]
GoodValue == Value("float", 5, FALSE)
ValueSamples ==
    {GoodValue, Value("int", 10, FALSE), Value("float", 15, FALSE),
     Value("int", -10, FALSE), Value("str", 0, FALSE), Value("float", 0, TRUE)}

\* The dicts a classification.json parses to.
Predictions ==
    UNION {{[k \in base \cup vary |-> IF k \in vary THEN f[k] ELSE GoodValue] :
              f \in [vary -> ValueSamples]} :
             base \in {{}, expected_keys \ VaryKeys}, vary \in SUBSET VaryKeys}

\* What the path tempdir/classification.json holds.
\*   absent, dir: no such file, a directory
\*   bad_unicode, bad_json: a file json.load rejects
\*   array: a file that parses to a JSON value that is not an object
\*   object: a file that parses to a dict
ClassificationFile(kind, predictions) == [kind |-> kind, predictions |-> predictions]
ClassificationFiles ==
    {ClassificationFile(k, <<>>) : k \in {"absent", "dir", "bad_unicode", "bad_json", "array"}}
    \cup {ClassificationFile("object", p) : p \in Predictions}

\* Path.is_file() / Path.is_dir() on an entry of the extracted archive.
is_file(entry) == entry.kind \notin {"absent", "dir"}
is_dir(entry) == entry.kind = "dir"

Result(lines, err) == [lines |-> lines, err |-> err]

\* check.py:68-71
MissingKeys(predictions, seed) ==
    LET keys_found == DOMAIN predictions
        missing_keys == expected_keys \ keys_found
    IN  IF missing_keys # {}
        THEN Result(<<Line("ERROR", "classification", "is missing the following keys",
                           list(missing_keys, seed), <<>>)>>, TRUE)
        ELSE Result(<<>>, FALSE)

\* check.py:73-77, with the assignment of line 77 left out.
UnexpectedKeysNoFlag(predictions, seed) ==
    LET keys_found == DOMAIN predictions
        unexpected_keys == keys_found \ expected_keys
    IN  IF unexpected_keys # {}
        THEN Result(<<Line("WARNING", "classification", "contains the following unexpected keys",
                           list(unexpected_keys, seed), <<>>)>>, FALSE)
        ELSE Result(<<>>, FALSE)

\* check.py:73-77
UnexpectedKeys(predictions, seed) ==
    LET keys_found == DOMAIN predictions
        unexpected_keys == keys_found \ expected_keys
    IN  IF unexpected_keys # {}
        THEN Result(<<Line("WARNING", "classification", "contains the following unexpected keys",
                           list(unexpected_keys, seed), <<>>)>>, TRUE)
        ELSE Result(<<>>, FALSE)

\* check.py:81-89: the body of the loop over the keys, for one key.
CheckValue(key, value) ==
    IF value.type \notin {"float", "int", "bool"}
    THEN Result(<<Line("ERROR", "classification", "has a value of type (instead of float)",
                       <<key, value.type>>, <<>>)>>, TRUE)
    ELSE IF ~value.nan /\ (value.num < 0 \/ value.num > 10)
    THEN Result(<<Line("WARNING", "classification", "has a float value not in range [0, 1]",
                       <<key>>, <<value.num>>)>>, TRUE)
    ELSE Result(<<>>, FALSE)

\* check.py:80-89
CheckValues(predictions, seed) ==
    LET keys == list(DOMAIN predictions, seed)
        r == [n \in 1..Len(keys) |-> CheckValue(keys[n], predictions[keys[n]])]
    IN  Result(Flatten([n \in 1..Len(keys) |-> r[n].lines]),
               \E n \in 1..Len(keys) : r[n].err)

\* check.py:92-99: roc_auc_score over one positive and len-1 negatives raises
\* only when a score is NaN (sklearn rejects non-finite input).
CheckAUC(predictions, any_error) ==
    IF Cardinality(DOMAIN predictions) > 2 /\ ~any_error
       /\ \E k \in DOMAIN predictions : predictions[k].nan
    THEN Result(<<Line("ERROR", "classification", "Unexpected error when computing the AUC",
                       <<"Input contains NaN">>, <<>>)>>, TRUE)
    ELSE Result(<<>>, FALSE)

\* check.py:57-99: the checks of a parsed dict.
CheckPredictions(predictions, seed) ==
    LET m == MissingKeys(predictions, seed)
        u == UnexpectedKeys(predictions, seed)
        v == CheckValues(predictions, seed)
        a == CheckAUC(predictions, m.err \/ u.err \/ v.err)
    IN  Result(m.lines \o u.lines \o v.lines \o a.lines,
               m.err \/ u.err \/ v.err \/ a.err)

\* check.py:36-99: everything before the summary of line 101, for a file that
\* does not make the program raise.
CheckClassificationFile(file, seed) ==
    IF ~is_file(file)
    THEN Result(<<Line("ERROR", "classification", "classification.json is missing.",
                       <<>>, <<>>)>>, TRUE)
    ELSE IF is_dir(file)
    THEN Result(<<Line("ERROR", "classification", "classification.json is a directory.",
                       <<>>, <<>>)>>, TRUE)
    ELSE IF file.kind = "bad_unicode"
    THEN Result(<<Line("ERROR", "classification",
                       "classification.json contains invalid unicode characters.",
                       <<>>, <<>>)>>, TRUE)
    ELSE IF file.kind = "bad_json"
    THEN Result(<<Line("ERROR", "classification",
                       "classification.json is not a valid JSON file.", <<>>, <<>>)>>, TRUE)
    ELSE CheckPredictions(file.predictions, seed)

\* check.py:66: predictions.keys() raises AttributeError unless json.load
\* returned a dict.
ClassificationRaises(file) == is_file(file) /\ file.kind = "array"

\* check.py:101-102
ClassificationSummary(lines, any_error) ==
    IF ~any_error THEN lines \o <<ClassificationSuccess>> ELSE lines

(***************************************************************************)
(* Segmentation                                                            *)
(***************************************************************************)

\* What np.asarray(PIL.Image.open(patch)) gives: the exception raised, if any
\* ("ok" for none), and the array's dtype, shape and set of values.
Image(open, dtype, shape, values) ==
    [open |-> open, dtype |-> dtype, shape |-> shape, values |-> values]
GoodImage == Image("ok", "uint8", expected_shape, {1, 10})
BadImages ==
    {Image("ok", "uint8", <<100, 100>>, {1, 10}),
     Image("ok", "uint8", expected_shape, {0, 1, 11}),
     Image("ok", "uint16", <<3000, 3000, 3>>, {0, 300}),
     Image("UnidentifiedImageError", "", <<>>, {}),
     Image("OSError", "", <<>>, {})}

\* Orders in which glob("*.png") may yield the files of a directory: the
\* order of the directory's entries is the file system's.
Reverse(seq) == [n \in 1..Len(seq) |-> seq[Len(seq) + 1 - n]]
GlobOrders(S) == {list(S, 1), Reverse(list(S, 1))}

\* What the path tempdir/wns_case_NN holds: nothing, a plain file, or a
\* directory with PNG files.  One file of a directory, patch_a.png, varies in
\* content; the others decode to valid patches.
CaseEntry(kind, glob, images) == [kind |-> kind, glob |-> glob, images |-> images]
CaseEntries ==
    {CaseEntry(k, <<>>, <<>>) : k \in {"absent", "file"}}
    \cup UNION {{CaseEntry("dir", g, [p \in found |-> IF p = "patch_a.png" THEN a ELSE GoodImage]) :
                   g \in GlobOrders(found), a \in {GoodImage} \cup BadImages} :
                 found \in SUBSET PatchNames}

\* What open("expected_patches.json") and json.load give: the file may be
\* unreadable, and a case may have no entry.  The keys are str(case).
Manifest(kind, patches) == [kind |-> kind, patches |-> patches]
Manifests ==
    {Manifest("unreadable", <<>>)}
    \cup {Manifest("ok", [c \in (1..cases) \ gap |-> ManifestPatches]) :
            gap \in {{}, {cases}}}

\* check.py:130-133
MissingPatches(case, expected_patches, patches_found, seed) ==
    LET missing_patches == expected_patches \ patches_found
    IN  IF missing_patches # {}
        THEN Result(<<Line("ERROR", "segmentation", "is missing the following patches",
                           list(missing_patches, seed), <<case>>)>>, TRUE)
        ELSE Result(<<>>, FALSE)

\* check.py:135-139: the message lists missing_patches (line 138).
UnexpectedPatches(case, expected_patches, patches_found, seed) ==
    LET missing_patches == expected_patches \ patches_found
        unexpected_patches == patches_found \ expected_patches
    IN  IF unexpected_patches # {}
        THEN Result(<<Line("WARNING", "segmentation", "contains the following unexpected patches",
                           list(missing_patches, seed), <<case>>)>>, TRUE)
        ELSE Result(<<>>, FALSE)

\* check.py:143-159, with the assignment of line 152 left out.
CheckPatchNoShapeFlag(name, image) ==
    IF image.open \in {"PermissionError", "UnidentifiedImageError"}
    THEN Result(<<Line("ERROR", "segmentation", "is not a valid PNG file.", <<name>>, <<>>)>>,
                TRUE)
    ELSE LET unexpected_classes == image.values \ expected_classes
             d == IF image.dtype # "uint8"
                  THEN <<Line("ERROR", "segmentation", "has dtype (instead of uint8).",
                              <<name, image.dtype>>, <<>>)>>
                  ELSE <<>>
             s == IF image.shape # expected_shape
                  THEN <<Line("ERROR", "segmentation", "has shape (instead of (3000, 3000)).",
                              <<name>>, image.shape)>>
                  ELSE <<>>
             c == IF unexpected_classes # {}
                  THEN <<Line("WARNING", "segmentation", "contains unexpected classes",
                              <<name>>, listInt(unexpected_classes))>>
                  ELSE <<>>
         IN  Result(d \o s \o c, image.dtype # "uint8" \/ unexpected_classes # {})

\* check.py:143-159: the body of the loop over the patches, for a patch whose
\* decoding raises nothing or an exception the except clause names.
CheckPatch(name, image) ==
    IF image.open \in {"PermissionError", "UnidentifiedImageError"}
    THEN Result(<<Line("ERROR", "segmentation", "is not a valid PNG file.", <<name>>, <<>>)>>,
                TRUE)
    ELSE LET unexpected_classes == image.values \ expected_classes
             d == IF image.dtype # "uint8"
                  THEN <<Line("ERROR", "segmentation", "has dtype (instead of uint8).",
                              <<name, image.dtype>>, <<>>)>>
                  ELSE <<>>
             s == IF image.shape # expected_shape
                  THEN <<Line("ERROR", "segmentation", "has shape (instead of (3000, 3000)).",
                              <<name>>, image.shape)>>
                  ELSE <<>>
             c == IF unexpected_classes # {}
                  THEN <<Line("WARNING", "segmentation", "contains unexpected classes",
                              <<name>>, listInt(unexpected_classes))>>
                  ELSE <<>>
         IN  Result(d \o s \o c,
                    image.dtype # "uint8" \/ image.shape # expected_shape
                        \/ unexpected_classes # {})

\* check.py:145: an exception the except clause of line 157 does not name (a
\* truncated file makes the decoder raise OSError).
PatchRaises(image) == image.open \notin {"ok", "PermissionError", "UnidentifiedImageError"}

\* check.py:142: the patches the loop gets through, all of them unless one raises.
PatchesChecked(entry) ==
    LET raising == {n \in 1..Len(entry.glob) : PatchRaises(entry.images[entry.glob[n]])}
    IN  IF raising = {} THEN Len(entry.glob)
        ELSE (CHOOSE n \in raising : \A m \in raising : n <= m) - 1

\* check.py:142-159
CheckPatches(entry) ==
    LET r == [n \in 1..PatchesChecked(entry) |->
                 CheckPatch(entry.glob[n], entry.images[entry.glob[n]])]
    IN  Result(Flatten([n \in 1..PatchesChecked(entry) |-> r[n].lines]),
               \E n \in 1..PatchesChecked(entry) : r[n].err)

\* check.py:127-159: a case folder that is a directory.
CheckCaseDirectory(case, entry, expected_patches, seed) ==
    LET patches_found == {entry.glob[n] : n \in 1..Len(entry.glob)}
        m == MissingPatches(case, expected_patches, patches_found, seed)
        u == UnexpectedPatches(case, expected_patches, patches_found, seed)
        p == CheckPatches(entry)
    IN  Result(m.lines \o u.lines \o p.lines, m.err \/ u.err \/ p.err)

\* check.py:119-159: one iteration of the loop over the cases.
CheckCaseFolder(case, entry, all_patches, seed) ==
    IF ~is_dir(entry)
    THEN Result(<<Line("WARNING", "segmentation", "Folder for case is missing.",
                       <<>>, <<case>>)>>, TRUE)
    ELSE IF is_file(entry)
    THEN Result(<<Line("ERROR", "segmentation", "Folder for case is a file.",
                       <<>>, <<case>>)>>, TRUE)
    ELSE CheckCaseDirectory(case, entry,
                            IF case \in DOMAIN all_patches THEN all_patches[case] ELSE {}, seed)

\* check.py:127,145: the iteration raises KeyError when the manifest has no
\* entry for the case, and what a patch's decoding raises and line 157 does
\* not catch.
CaseRaises(case, entry, all_patches) ==
    /\ is_dir(entry)
    /\ \/ case \notin DOMAIN all_patches
       \/ \E n \in 1..Len(entry.glob) : PatchRaises(entry.images[entry.glob[n]])

\* check.py:161-165, with `or` for the `and` of line 164.
SummaryEitherValid(classification_error, segmentation_error) ==
    (IF ~segmentation_error THEN <<SegmentationSuccess>> ELSE <<>>)
    \o (IF ~classification_error \/ ~segmentation_error THEN <<CompletelyValid>> ELSE <<>>)

\* check.py:161-165
Summary(classification_error, segmentation_error) ==
    (IF ~segmentation_error THEN <<SegmentationSuccess>> ELSE <<>>)
    \o (IF ~classification_error /\ ~segmentation_error THEN <<CompletelyValid>> ELSE <<>>)

(***************************************************************************)
(* What a fully valid submission holds (spec.md, section 8).               *)
(***************************************************************************)
ValidClassificationFile(file) ==
    /\ file.kind = "object"
    /\ DOMAIN file.predictions = expected_keys
    /\ \A k \in expected_keys :
          /\ file.predictions[k].type \in {"float", "int"}
          /\ ~file.predictions[k].nan
          /\ file.predictions[k].num >= 0 /\ file.predictions[k].num <= 10

ValidCaseEntry(case, entry, all_patches) ==
    /\ entry.kind = "dir"
    /\ case \in DOMAIN all_patches
    /\ {entry.glob[n] : n \in 1..Len(entry.glob)} = all_patches[case]
    /\ \A n \in 1..Len(entry.glob) :
          LET image == entry.images[entry.glob[n]]
          IN  /\ image.open = "ok"
              /\ image.dtype = "uint8"
              /\ image.shape = expected_shape
              /\ image.values \subseteq expected_classes

(***************************************************************************)
(* The program.                                                            *)
(***************************************************************************)
VARIABLES
    nargs,                     \* len(sys.argv[1:])
    i,                         \* the archives the loop of line 11 has taken
    archive,                   \* what the path of archive i holds
    pc,                        \* where the program is
    tempdirs,                  \* the temporary directories that exist
    any_classification_error,  \* check.py:33
    any_segmentation_error,    \* check.py:107
    case,                      \* check.py:115
    all_expected_patches,      \* check.py:110
    hashseed,                  \* the string-hash seed of the process
    exc,                       \* the exception that ended the process
    out,                       \* the lines the latest step wrote to stdout
    printed,                   \* severity and category of the lines of archive i
    fully_valid,               \* all that was read of archive i is valid
    looked,                    \* the path the latest step looked up, and what it holds
    hashseed2,                 \* the seed of a second run on the same archives
    out2                       \* the lines the second run writes at this step

vars == <<nargs, i, archive, pc, tempdirs, any_classification_error,
          any_segmentation_error, case, all_expected_patches, hashseed, exc,
          out, printed, fully_valid, looked, hashseed2, out2>>

\* What a path of sys.argv may hold: nothing (or no regular file), a file
\* that is no ZIP container, a ZIP container whose members need a password
\* (extractall raises RuntimeError), a ZIP container.
ArchiveFiles == {"absent", "not_zip", "encrypted_zip", "zip"}

\* The path a step looked up in the extracted archive: its name, what it is
\* and, for a directory, the names glob("*.png") yields.
Looked(path, kind, found) == [path |-> path, kind |-> kind, found |-> found]
Nothing == Looked("", "", {})

Init ==
    /\ nargs = NumArchives
    /\ i = 0
    /\ archive = "none"
    /\ pc = "loop"
    /\ tempdirs = {}
    /\ any_classification_error = FALSE
    /\ any_segmentation_error = FALSE
    /\ case = 0
    /\ all_expected_patches = <<>>
    /\ hashseed \in Seeds
    /\ hashseed2 \in Seeds
    /\ exc = ""
    /\ out = <<>>
    /\ out2 = <<>>
    /\ printed = {}
    /\ fully_valid = FALSE
    /\ looked = Nothing

\* Both runs write the lines; lines1 and lines2 differ at most in the order
\* that the hash seed decides.
Write(lines1, lines2) ==
    /\ out' = lines1
    /\ out2' = lines2
    /\ printed' = printed \cup TagsOf(lines1)

\* check.py:18, with the `continue` left out.
AfterNotFoundFallThrough == "with"

\* check.py:18: `continue` goes back to the loop of line 11.
AfterNotFound == "loop"

\* check.py:28, with the `continue` left out.
AfterBadZipFallThrough == "classification"

\* check.py:28: `continue` goes back to the loop of line 11.
AfterBadZip == "loop"

\* check.py:20, with a mkdtemp whose directory nothing removes.
LeaveTempDirLeaking(dirs, dir) == dirs

\* check.py:20: leaving the `with TemporaryDirectory()` block, by its end, by
\* `continue` or by an exception, removes the directory.
LeaveTempDir(dirs, dir) == dirs \ {dir}

\* An exception nothing catches ends the process: the `with` block is left (if
\* entered) and the traceback goes to stderr.
Raise(exception) ==
    /\ pc' = "crashed"
    /\ exc' = exception
    /\ tempdirs' = LeaveTempDir(tempdirs, i)

\* check.py:11-18: the next archive is not a file.
ArchiveNotFound ==
    /\ pc = "loop"
    /\ looked' = Nothing
    /\ i < nargs
    /\ i' = i + 1
    /\ archive' = "absent"
    /\ out' = <<CheckingLine, NotFoundLine>>
    /\ out2' = <<CheckingLine, NotFoundLine>>
    /\ printed' = TagsOf(<<CheckingLine, NotFoundLine>>)
    /\ fully_valid' = FALSE
    /\ pc' = AfterNotFound
    /\ UNCHANGED <<nargs, tempdirs, any_classification_error, any_segmentation_error,
                   case, all_expected_patches, hashseed, hashseed2, exc>>

\* check.py:11-16: the next archive is a file.
ArchiveFound ==
    /\ pc = "loop"
    /\ looked' = Nothing
    /\ i < nargs
    /\ i' = i + 1
    /\ \E a \in ArchiveFiles \ {"absent"} : archive' = a
    /\ out' = <<CheckingLine>>
    /\ out2' = <<CheckingLine>>
    /\ printed' = TagsOf(<<CheckingLine>>)
    /\ fully_valid' = FALSE
    /\ pc' = "with"
    /\ UNCHANGED <<nargs, tempdirs, any_classification_error, any_segmentation_error,
                   case, all_expected_patches, hashseed, hashseed2, exc>>

\* check.py:20-21
EnterTempDir ==
    /\ pc = "with"
    /\ looked' = Nothing
    /\ tempdirs' = tempdirs \cup {i}
    /\ pc' = "extract"
    /\ Write(<<>>, <<>>)
    /\ UNCHANGED <<nargs, i, archive, any_classification_error, any_segmentation_error,
                   case, all_expected_patches, hashseed, hashseed2, exc, fully_valid>>

\* check.py:23-28: ZipFile raises BadZipFile.
ExtractBadZip ==
    /\ pc = "extract"
    /\ looked' = Nothing
    /\ archive = "not_zip"
    /\ Write(<<CorruptedLine>>, <<CorruptedLine>>)
    /\ tempdirs' = LeaveTempDir(tempdirs, i)
    /\ pc' = AfterBadZip
    /\ UNCHANGED <<nargs, i, archive, any_classification_error, any_segmentation_error,
                   case, all_expected_patches, hashseed, hashseed2, exc, fully_valid>>

\* check.py:23-26: extractall raises an exception other than BadZipFile.
ExtractRaises ==
    /\ pc = "extract"
    /\ looked' = Nothing
    /\ archive = "encrypted_zip"
    /\ Write(<<>>, <<>>)
    /\ Raise("RuntimeError")
    /\ UNCHANGED <<nargs, i, archive, any_classification_error, any_segmentation_error,
                   case, all_expected_patches, hashseed, hashseed2, fully_valid>>

\* check.py:23-25
Extract ==
    /\ pc = "extract"
    /\ looked' = Nothing
    /\ archive = "zip"
    /\ Write(<<>>, <<>>)
    /\ fully_valid' = TRUE
    /\ pc' = "classification"
    /\ UNCHANGED <<nargs, i, archive, tempdirs, any_classification_error,
                   any_segmentation_error, case, all_expected_patches, hashseed,
                   hashseed2, exc>>

\* check.py:32-102
CheckClassification ==
    /\ pc = "classification"
    /\ \E file \in ClassificationFiles :
          /\ ~ClassificationRaises(file)
          /\ looked' = Looked("classification.json", file.kind, {})
          /\ LET r == CheckClassificationFile(file, hashseed)
                 r2 == CheckClassificationFile(file, hashseed2)
             IN  /\ any_classification_error' = r.err
                 /\ Write(ClassificationSummary(r.lines, r.err),
                          ClassificationSummary(r2.lines, r2.err))
          /\ fully_valid' = (fully_valid /\ ValidClassificationFile(file))
    /\ pc' = "manifest"
    /\ UNCHANGED <<nargs, i, archive, tempdirs, any_segmentation_error, case,
                   all_expected_patches, hashseed, hashseed2, exc>>

\* check.py:32-66: predictions.keys() raises.
ClassificationRaise ==
    /\ pc = "classification"
    /\ \E file \in ClassificationFiles :
          /\ ClassificationRaises(file)
          /\ looked' = Looked("classification.json", file.kind, {})
          /\ fully_valid' = (fully_valid /\ ValidClassificationFile(file))
    /\ any_classification_error' = FALSE
    /\ Write(<<>>, <<>>)
    /\ Raise("AttributeError")
    /\ UNCHANGED <<nargs, i, archive, any_segmentation_error, case,
                   all_expected_patches, hashseed, hashseed2>>

\* check.py:106-113
LoadManifest ==
    /\ pc = "manifest"
    /\ looked' = Nothing
    /\ \E m \in Manifests :
          /\ m.kind = "ok"
          /\ all_expected_patches' = m.patches
    /\ any_segmentation_error' = FALSE
    /\ case' = 1
    /\ Write(<<>>, <<>>)
    /\ pc' = "cases"
    /\ UNCHANGED <<nargs, i, archive, tempdirs, any_classification_error, hashseed,
                   hashseed2, exc, fully_valid>>

\* check.py:106-110: open or json.load raises.
LoadManifestRaise ==
    /\ pc = "manifest"
    /\ looked' = Nothing
    /\ \E m \in Manifests :
          /\ m.kind = "unreadable"
          /\ fully_valid' = (fully_valid /\ m.kind = "ok")
    /\ any_segmentation_error' = FALSE
    /\ Write(<<>>, <<>>)
    /\ Raise("FileNotFoundError")
    /\ UNCHANGED <<nargs, i, archive, any_classification_error, case,
                   all_expected_patches, hashseed, hashseed2>>

\* check.py:115-159: one iteration of the loop over the cases.
CheckCase ==
    /\ pc = "cases"
    /\ \E entry \in CaseEntries :
          /\ ~CaseRaises(case, entry, all_expected_patches)
          /\ looked' = Looked("wns_case", entry.kind, {entry.glob[n] : n \in 1..Len(entry.glob)})
          /\ LET r == CheckCaseFolder(case, entry, all_expected_patches, hashseed)
                 r2 == CheckCaseFolder(case, entry, all_expected_patches, hashseed2)
             IN  /\ any_segmentation_error' = (any_segmentation_error \/ r.err)
                 /\ Write(r.lines, r2.lines)
          /\ fully_valid' = (fully_valid /\ ValidCaseEntry(case, entry, all_expected_patches))
    /\ IF case < cases
       THEN case' = case + 1 /\ pc' = "cases"
       ELSE case' = case /\ pc' = "summary"
    /\ UNCHANGED <<nargs, i, archive, tempdirs, any_classification_error,
                   all_expected_patches, hashseed, hashseed2, exc>>

\* check.py:115-145: the iteration raises; what it printed before stays printed.
CheckCaseRaise ==
    /\ pc = "cases"
    /\ \E entry \in CaseEntries :
          /\ CaseRaises(case, entry, all_expected_patches)
          /\ looked' = Looked("wns_case", entry.kind, {entry.glob[n] : n \in 1..Len(entry.glob)})
          /\ IF case \notin DOMAIN all_expected_patches
             THEN /\ UNCHANGED any_segmentation_error
                  /\ Write(<<>>, <<>>)
                  /\ Raise("KeyError")
             ELSE LET r == CheckCaseFolder(case, entry, all_expected_patches, hashseed)
                      r2 == CheckCaseFolder(case, entry, all_expected_patches, hashseed2)
                  IN  /\ any_segmentation_error' = (any_segmentation_error \/ r.err)
                      /\ Write(r.lines, r2.lines)
                      /\ Raise("OSError")
          /\ fully_valid' = (fully_valid /\ ValidCaseEntry(case, entry, all_expected_patches))
    /\ UNCHANGED <<nargs, i, archive, any_classification_error, case,
                   all_expected_patches, hashseed, hashseed2>>

\* check.py:161-165, and the end of the `with` block of line 20.
PrintSummary ==
    /\ pc = "summary"
    /\ looked' = Nothing
    /\ Write(Summary(any_classification_error, any_segmentation_error),
             Summary(any_classification_error, any_segmentation_error))
    /\ tempdirs' = LeaveTempDir(tempdirs, i)
    /\ pc' = "loop"
    /\ UNCHANGED <<nargs, i, archive, any_classification_error, any_segmentation_error,
                   case, all_expected_patches, hashseed, hashseed2, exc, fully_valid>>

\* check.py:11: sys.argv[1:] is exhausted.
Finish ==
    /\ pc = "loop"
    /\ i = nargs
    /\ pc' = "done"
    /\ UNCHANGED <<nargs, i, archive, tempdirs, any_classification_error,
                   any_segmentation_error, case, all_expected_patches, hashseed,
                   hashseed2, exc, out, out2, printed, fully_valid, looked>>

Next ==
    \/ ArchiveNotFound
    \/ ArchiveFound
    \/ EnterTempDir
    \/ ExtractBadZip
    \/ ExtractRaises
    \/ Extract
    \/ CheckClassification
    \/ ClassificationRaise
    \/ LoadManifest
    \/ LoadManifestRaise
    \/ CheckCase
    \/ CheckCaseRaise
    \/ PrintSummary
    \/ Finish

Spec == Init /\ [][Next]_vars

(***************************************************************************)
(* Where the program is in the checks of archive i.                        *)
(***************************************************************************)
Elements(seq) == {seq[n] : n \in 1..Len(seq)}

ErrorC == <<"ERROR", "classification">>
WarningC == <<"WARNING", "classification">>
SuccessC == <<"SUCCESS", "classification">>
ErrorS == <<"ERROR", "segmentation">>
WarningS == <<"WARNING", "segmentation">>
SuccessS == <<"SUCCESS", "segmentation">>

\* Line 101 has decided the classification summary of archive i.
ClassificationDecided ==
    /\ archive = "zip"
    /\ \/ pc \in {"manifest", "cases", "summary", "loop", "done"}
       \/ pc = "crashed" /\ exc \in {"FileNotFoundError", "KeyError", "OSError"}

\* Line 107 has run for archive i: any_segmentation_error is this archive's.
SegmentationStarted ==
    /\ archive = "zip"
    /\ \/ pc \in {"cases", "summary", "loop", "done"}
       \/ pc = "crashed" /\ exc \in {"KeyError", "OSError"}

\* Lines 161-165 have run for archive i: all its checks are done.
ArchiveChecked == archive = "zip" /\ pc \in {"loop", "done"}

(***************************************************************************)
(* C1                                                                      *)
(***************************************************************************)

\* C1 as stated: only an ERROR finding sets a category's flag, so a set flag
\* means an ERROR line of the category was printed, and a category whose only
\* findings are warnings gets its SUCCESS line.
C1_OnlyErrorsSetFlag ==
    /\ (ClassificationDecided /\ any_classification_error) => ErrorC \in printed
    /\ (ClassificationDecided /\ ErrorC \notin printed) => SuccessC \in printed
    /\ (SegmentationStarted /\ any_segmentation_error) => ErrorS \in printed
    /\ (ArchiveChecked /\ ErrorS \notin printed) => SuccessS \in printed

\* C1 amended: a WARNING finding sets the category's flag as an ERROR finding
\* does: once a WARNING or ERROR line of a category is printed for an archive
\* the flag of the category is set and its SUCCESS line is not printed, also
\* when warnings are the only findings.
C1_WarningsSetFlag ==
    /\ (ClassificationDecided /\ (WarningC \in printed \/ ErrorC \in printed))
          => (any_classification_error /\ SuccessC \notin printed)
    /\ (SegmentationStarted /\ (WarningS \in printed \/ ErrorS \in printed))
          => (any_segmentation_error /\ SuccessS \notin printed)

\* An archive is checked whose only findings, in both categories, are warnings.
C1_Witness ==
    /\ ArchiveChecked
    /\ WarningC \in printed /\ ErrorC \notin printed
    /\ WarningS \in printed /\ ErrorS \notin printed
    /\ any_classification_error /\ any_segmentation_error

(***************************************************************************)
(* C2                                                                      *)
(***************************************************************************)

\* C2: for an archive path that is no file the program prints the
\* "Checking archive" line and exactly one ERROR line, creates no temporary
\* directory, runs no check and prints no SUCCESS line, and is back at the
\* loop over the archives (it ends only when no archive is left).
C2_MissingArchive ==
    archive = "absent" =>
        /\ pc \in {"loop", "done"}
        /\ out = <<CheckingLine, NotFoundLine>>
        /\ printed = {<<"INFO", "archive">>, <<"ERROR", "archive">>}
        /\ tempdirs = {}
        /\ looked = Nothing
        /\ pc = "done" => i = nargs

\* The first archive is missing and another one follows.
C2_Witness == archive = "absent" /\ pc = "loop" /\ i < nargs

(***************************************************************************)
(* C3                                                                      *)
(***************************************************************************)

\* C3: for an archive that is a file but no ZIP container the program prints
\* exactly one ERROR line, the corrupted-ZIP message, runs neither the
\* classification nor the segmentation checks, prints no SUCCESS line and is
\* back at the loop over the archives.
C3_NotAZip ==
    archive = "not_zip" =>
        /\ pc \in {"with", "extract", "loop", "done"}
        /\ pc = "with" => out = <<CheckingLine>> /\ printed = {<<"INFO", "archive">>}
        /\ pc = "extract" => out = <<>> /\ printed = {<<"INFO", "archive">>}
        /\ pc \in {"loop", "done"} =>
              /\ out = <<CorruptedLine>>
              /\ printed = {<<"INFO", "archive">>, <<"ERROR", "archive">>}
        /\ looked = Nothing
        /\ pc = "done" => i = nargs

\* The corrupted-ZIP message is printed and another archive follows.
C3_Witness == archive = "not_zip" /\ pc = "loop" /\ i < nargs /\ out = <<CorruptedLine>>

(***************************************************************************)
(* C4                                                                      *)
(***************************************************************************)

\* C4: when the checks of an extracted archive are done, "The submission is
\* completely valid!" is printed iff neither flag is set, it is then the last
\* line, and it is printed nowhere else; a fully valid archive gets no ERROR
\* line and its output ends with that line.
C4_CompletelyValid ==
    /\ ArchiveChecked =>
          /\ (CompletelyValid \in Elements(out))
                <=> (~any_classification_error /\ ~any_segmentation_error)
          /\ (CompletelyValid \in Elements(out)) => out[Len(out)] = CompletelyValid
    /\ ~ArchiveChecked => <<"SUCCESS", "submission">> \notin printed
    /\ fully_valid =>
          /\ pc # "crashed"
          /\ \A tag \in printed : tag[1] # "ERROR"
          /\ ArchiveChecked => (out # <<>> /\ out[Len(out)] = CompletelyValid)

\* The checks of a fully valid archive are done.
C4_Witness == ArchiveChecked /\ fully_valid /\ CompletelyValid \in Elements(out)

(***************************************************************************)
(* C5                                                                      *)
(***************************************************************************)

\* C5: whatever an extracted archive holds, its content never aborts the run:
\* the process does not end by an exception while it checks an archive, and
\* when it has ended every archive of the command line has been taken.
C5_ContentNeverAborts ==
    archive = "zip" => (pc # "crashed" /\ (pc = "done" => i = nargs))

(***************************************************************************)
(* C6                                                                      *)
(***************************************************************************)

\* C6: the only temporary directory that can exist is that of the archive
\* being processed, and it exists exactly from the `with` of line 20 to the
\* way out of that archive's processing: not before the archive is found, not
\* after the checks, the corrupted-ZIP `continue` or an exception, not when
\* the next archive starts or the run has ended.
C6_TempDirScoped ==
    /\ tempdirs \subseteq {i}
    /\ (i \in tempdirs) <=> (pc \in {"extract", "classification", "manifest", "cases", "summary"})

\* An exception ended the checks of the second archive and no directory is left.
C6_Witness == pc = "crashed" /\ exc = "OSError" /\ i = 2 /\ tempdirs = {}

(***************************************************************************)
(* C7                                                                      *)
(***************************************************************************)

\* C7: a second run on the same unchanged archives writes the same lines as
\* the first, line for line, the order of the listed names included.
C7_SameOutput == out2 = out

(***************************************************************************)
(* C8                                                                      *)
(***************************************************************************)

\* C8: a wns_case_NN that is a plain file gets the ERROR line "is a file" (and
\* sets the segmentation flag), a classification.json that is a directory the
\* ERROR line "is a directory".
C8_FileOrDirectory ==
    /\ (looked.path = "wns_case" /\ looked.kind = "file") =>
          /\ Len(out) = 1
          /\ out[1].sev = "ERROR" /\ out[1].msg = "Folder for case is a file."
          /\ any_segmentation_error
    /\ (looked.path = "classification.json" /\ looked.kind = "dir") =>
          /\ Len(out) = 1
          /\ out[1].sev = "ERROR" /\ out[1].msg = "classification.json is a directory."

(***************************************************************************)
(* C9                                                                      *)
(***************************************************************************)

\* C9: the WARNING about unexpected patches lists exactly the patches found
\* minus the patches expected, the ERROR about missing patches exactly the
\* patches expected minus the patches found.
C9_PatchListings ==
    \A n \in 1..Len(out) :
        /\ out[n].msg = "contains the following unexpected patches" =>
              Elements(out[n].names) = looked.found \ all_expected_patches[out[n].nums[1]]
        /\ out[n].msg = "is missing the following patches" =>
              Elements(out[n].names) = all_expected_patches[out[n].nums[1]] \ looked.found

(***************************************************************************)
(* C10                                                                     *)
(***************************************************************************)
FlagsAndLines ==
    /\ ClassificationDecided =>
          /\ any_classification_error <=> (ErrorC \in printed \/ WarningC \in printed)
          /\ (SuccessC \in printed) <=> ~any_classification_error
    /\ (archive = "zip" /\ ~ClassificationDecided) =>
          printed \cap {ErrorC, WarningC, SuccessC} = {}
    /\ SegmentationStarted =>
          any_segmentation_error <=> (ErrorS \in printed \/ WarningS \in printed)
    /\ (pc = "cases" /\ case = 1) => ~any_segmentation_error
    /\ ArchiveChecked => ((SuccessS \in printed) <=> ~any_segmentation_error)
    /\ (archive = "zip" /\ ~ArchiveChecked) => SuccessS \notin printed

FlagsStaySet ==
    /\ (pc \in {"manifest", "cases", "summary"} /\ any_classification_error)
          => any_classification_error'
    /\ (pc \in {"cases", "summary"} /\ any_segmentation_error)
          => any_segmentation_error'

\* C10: for an extracted archive, once a category's summary is decided its
\* flag is set iff an ERROR or WARNING line of the category was printed for
\* this archive, and the category's SUCCESS line is printed iff the flag is
\* not set, so exactly one of the two occurs; the flag starts unset for each
\* archive and, once set, stays set while the archive is checked.
C10_FlagIffFinding == []FlagsAndLines /\ [][FlagsStaySet]_vars

\* An extra key alone: a WARNING naming it, the flag set, and no SUCCESS line.
C10_Witness ==
    /\ pc = "manifest"
    /\ out = <<Line("WARNING", "classification", "contains the following unexpected keys",
                    <<"ZZZZZZZZ">>, <<>>)>>
    /\ any_classification_error
    /\ SuccessC \notin printed

====
